---------------------------- MODULE Spec2Model ----------------------------
(***************************************************************************)
(* Model of the Markdown preview extension (extension.ts): the debounced   *)
(* refresh of the preview content provider, the preview-URI derivation,    *)
(* the front-matter stripping, the stylesheet href resolution and the      *)
(* showPreview command with its telemetry.                                 *)
(*                                                                         *)
(* Strings are sequences of one-character strings, so that the string      *)
(* functions (concatenation, encoding, parsing, regular-expression         *)
(* matching) are computed character by character.                          *)
(***************************************************************************)
EXTENDS Integers, Sequences, FiniteSets, TLC

VARIABLES
    waiting,            \* MDDocumentContentProvider._waiting
    timers,             \* the host's queue of armed setTimeout callbacks
    emitted,            \* the URIs fired on _onDidChange, in order
    now,                \* the host's clock
    textDocuments,      \* vscode.workspace.textDocuments
    calls,              \* history: every call of update, in order
    activeTextEditor,   \* vscode.window.activeTextEditor (a document or None)
    telemetryReporter,  \* the module-level telemetryReporter ("present" or "null")
    telemetry,          \* the events handed to sendTelemetryEvent, in order
    commands,           \* the requests the latest command made to the host
    invoked,            \* history: the latest invocation of showPreview (or None)
    fnIn,               \* the input of the pure function under study
    fnOut,              \* its result
    pc                  \* "input" before the function has run, "done" after

vars == <<waiting, timers, emitted, now, textDocuments, calls, activeTextEditor,
          telemetryReporter, telemetry, commands, invoked, fnIn, fnOut, pc>>

runtimeVars == <<waiting, timers, emitted, now, textDocuments, calls>>
previewVars == <<activeTextEditor, telemetryReporter, telemetry, commands, invoked>>
fnVars == <<fnIn, fnOut, pc>>

\* undefined: no URI, no editor, no value
None == [undefined |-> TRUE]

-----------------------------------------------------------------------------
(* Strings *)

RECURSIVE Flatten(_)
Flatten(ss) == IF ss = <<>> THEN <<>> ELSE Head(ss) \o Flatten(Tail(ss))

\* s.substring(i) with a 1-based index
Drop(s, n) == IF n >= Len(s) THEN <<>> ELSE SubSeq(s, n + 1, Len(s))
Take(s, n) == IF n <= 0 THEN <<>> ELSE SubSeq(s, 1, IF n > Len(s) THEN Len(s) ELSE n)

StartsWith(s, p) == Len(s) >= Len(p) /\ SubSeq(s, 1, Len(p)) = p
IsSuffix(t, s) == Len(t) <= Len(s) /\ Drop(s, Len(s) - Len(t)) = t

\* the length of the longest prefix of s that has no character of stop
RECURSIVE RunLength(_, _)
RunLength(s, stop) ==
    IF s = <<>> \/ Head(s) \in stop THEN 0 ELSE 1 + RunLength(Tail(s), stop)

\* the length of the longest prefix of s made of characters of keep
RECURSIVE SpanLength(_, _)
SpanLength(s, keep) ==
    IF s = <<>> \/ Head(s) \notin keep THEN 0 ELSE 1 + SpanLength(Tail(s), keep)

Words(n, alphabet) == UNION {[1..k -> alphabet] : k \in 0..n}

sMarkdown == <<"m", "a", "r", "k", "d", "o", "w", "n">>
sFile == <<"f", "i", "l", "e">>
sHttp == <<"h", "t", "t", "p">>
sRendered == <<".", "r", "e", "n", "d", "e", "r", "e", "d">>

-----------------------------------------------------------------------------
(* vscode.Uri (vs/base/common/uri.ts): five components, the string form    *)
(* with percent-encoded components, and the parser that reads it back.     *)

Uri(scheme, authority, path, query, fragment) ==
    [scheme |-> scheme, authority |-> authority, path |-> path,
     query |-> query, fragment |-> fragment]

encodeChar(c) ==
    CASE c = ":" -> <<"%", "3", "A">>
      [] c = "/" -> <<"%", "2", "F">>
      [] c = "?" -> <<"%", "3", "F">>
      [] c = "#" -> <<"%", "2", "3">>
      [] c = "%" -> <<"%", "2", "5">>
      [] c = " " -> <<"%", "2", "0">>
      [] OTHER -> <<c>>

RECURSIVE encodeURIComponent(_)
encodeURIComponent(s) ==
    IF s = <<>> THEN <<>> ELSE encodeChar(Head(s)) \o encodeURIComponent(Tail(s))

decodeTriple(t) ==
    CASE t = <<"%", "3", "A">> -> <<":">>
      [] t = <<"%", "2", "F">> -> <<"/">>
      [] t = <<"%", "3", "F">> -> <<"?">>
      [] t = <<"%", "2", "3">> -> <<"#">>
      [] t = <<"%", "2", "5">> -> <<"%">>
      [] t = <<"%", "2", "0">> -> <<" ">>
      [] OTHER -> t

RECURSIVE decodeURIComponent(_)
decodeURIComponent(s) ==
    IF s = <<>> THEN <<>>
    ELSE IF Head(s) = "%" /\ Len(s) >= 3
         THEN decodeTriple(Take(s, 3)) \o decodeURIComponent(Drop(s, 3))
         ELSE <<Head(s)>> \o decodeURIComponent(Tail(s))

\* the path is encoded segment by segment, the slashes are kept
RECURSIVE encodePath(_)
encodePath(p) ==
    IF p = <<>> THEN <<>>
    ELSE IF Head(p) = "/" THEN <<"/">> \o encodePath(Tail(p))
         ELSE encodeChar(Head(p)) \o encodePath(Tail(p))

\* uri.toString(skipEncoding)
UriFormat(u, skipEncoding) ==
    (IF u.scheme # <<>> THEN u.scheme \o <<":">> ELSE <<>>)
    \o (IF u.authority # <<>> \/ u.scheme = sFile THEN <<"/", "/">> ELSE <<>>)
    \o (IF skipEncoding THEN u.authority ELSE encodeURIComponent(u.authority))
    \o (IF skipEncoding THEN u.path ELSE encodePath(u.path))
    \o (IF u.query # <<>>
        THEN <<"?">> \o (IF skipEncoding THEN u.query ELSE encodeURIComponent(u.query))
        ELSE <<>>)
    \o (IF u.fragment # <<>>
        THEN <<"#">> \o (IF skipEncoding THEN u.fragment
                         ELSE encodeURIComponent(u.fragment))
        ELSE <<>>)

UriToString(u) == UriFormat(u, FALSE)

\* Uri.parse: /^(([^:/?#]+?):)?(\/\/([^/?#]*))?([^?#]*)(\?([^#]*))?(#(.*))?/
UriParse(value) ==
    LET n1 == RunLength(value, {":", "/", "?", "#"})
        hasScheme == n1 >= 1 /\ n1 < Len(value) /\ value[n1 + 1] = ":"
        scheme == IF hasScheme THEN Take(value, n1) ELSE <<>>
        r1 == IF hasScheme THEN Drop(value, n1 + 1) ELSE value
        hasAuthority == StartsWith(r1, <<"/", "/">>)
        n2 == IF hasAuthority THEN RunLength(Drop(r1, 2), {"/", "?", "#"}) ELSE 0
        authority == IF hasAuthority THEN Take(Drop(r1, 2), n2) ELSE <<>>
        r2 == IF hasAuthority THEN Drop(r1, 2 + n2) ELSE r1
        n3 == RunLength(r2, {"?", "#"})
        path == Take(r2, n3)
        r3 == Drop(r2, n3)
        hasQuery == r3 # <<>> /\ Head(r3) = "?"
        n4 == IF hasQuery THEN RunLength(Tail(r3), {"#"}) ELSE 0
        query == IF hasQuery THEN Take(Tail(r3), n4) ELSE <<>>
        r4 == IF hasQuery THEN Drop(r3, 1 + n4) ELSE r3
        fragment == IF r4 # <<>> /\ Head(r4) = "#" THEN Tail(r4) ELSE <<>>
    IN  Uri(scheme, decodeURIComponent(authority), decodeURIComponent(path),
            decodeURIComponent(query), decodeURIComponent(fragment))

\* Uri.file(path), for POSIX paths
UriFile(p) ==
    IF StartsWith(p, <<"/", "/">>)
    THEN LET n == RunLength(Drop(p, 2), {"/"})
         IN  Uri(sFile, Take(Drop(p, 2), n),
                 IF Drop(p, 2 + n) = <<>> THEN <<"/">> ELSE Drop(p, 2 + n),
                 <<>>, <<>>)
    ELSE Uri(sFile, <<>>, IF p = <<>> \/ Head(p) # "/" THEN <<"/">> \o p ELSE p,
             <<>>, <<>>)

\* uri.fsPath, for POSIX paths
fsPath(u) ==
    IF u.authority # <<>> /\ u.scheme = sFile
    THEN <<"/", "/">> \o u.authority \o u.path
    ELSE u.path

-----------------------------------------------------------------------------
(* The preview URI *)

getMarkdownUriDropsQuery(uri) ==
    [uri EXCEPT !.scheme = sMarkdown, !.path = uri.path \o sRendered]

getMarkdownUri(uri) ==
    [uri EXCEPT !.scheme = sMarkdown, !.path = uri.path \o sRendered,
                !.query = UriToString(uri)]

isMarkdownFile(document) ==
    document.languageId = "markdown" /\ document.uri.scheme # sMarkdown


-----------------------------------------------------------------------------
(* Bounds of the model *)

MaxCalls == 3       \* calls of update in one behaviour
MaxTime == 300      \* the clock stops advancing on its own here

(* The delay of the refresh timer *)
Delay == 300

\* the clock advances in thirds of the delay
TickStep == Delay \div 3

-----------------------------------------------------------------------------
(* The documents the host may have open *)

FileUri(name) == Uri(sFile, <<>>, <<"/">> \o name, <<>>, <<>>)

docA == [uri |-> FileUri(<<"a">>), languageId |-> "markdown"]
docB == [uri |-> FileUri(<<"b">>), languageId |-> "markdown"]
docT == [uri |-> FileUri(<<"t">>), languageId |-> "plaintext"]

\* the generated document the host opens for a preview URI
PreviewDocument(d) == [uri |-> getMarkdownUri(d.uri), languageId |-> "markdown"]

SourceDocs == {docA, docB, docT}
PreviewDocs == {PreviewDocument(docA), PreviewDocument(docB)}
AllDocs == SourceDocs \cup PreviewDocs

\* the orders in which forEach may visit a set of documents
Orders(S) == {o \in [1..Cardinality(S) -> S] : \A d \in S : \E i \in DOMAIN o : o[i] = d}

-----------------------------------------------------------------------------
(* MDDocumentContentProvider: the debounced refresh.  The provider's state *)
(* is the pair of its _waiting flag and the timers it has armed.           *)

Provider(w, t) == [waiting |-> w, timers |-> t]

\* update without the check of _waiting: every call arms a timer
updateAlwaysArms(p, uri, time) ==
    Provider(TRUE, Append(p.timers, [uri |-> uri, due |-> time + Delay]))

\* update that re-arms the pending timer for the latest URI
updateResets(p, uri, time) ==
    Provider(TRUE, <<[uri |-> uri, due |-> time + Delay]>>)

\* update that arms the timer but leaves _waiting false
updateForgetsFlag(p, uri, time) ==
    IF ~p.waiting
    THEN Provider(FALSE, Append(p.timers, [uri |-> uri, due |-> time + Delay]))
    ELSE p

\* provider.update(uri), called at `time`
update(p, uri, time) ==
    IF ~p.waiting
    THEN Provider(TRUE, Append(p.timers, [uri |-> uri, due |-> time + Delay]))
    ELSE p

\* the callback given to setTimeout, without the reset of _waiting
timerCallbackKeepsWaiting(p, t) ==
    [waiting |-> p.waiting, fired |-> <<t.uri>>]

\* the callback that clears the flag and fires nothing
timerCallbackSilent(p, t) ==
    [waiting |-> FALSE, fired |-> <<>>]

\* the callback given to setTimeout: the new flag and the URIs fired
timerCallback(p, t) ==
    [waiting |-> FALSE, fired |-> <<t.uri>>]

\* the history entry of one call of update
Call(uri, src) == [uri |-> uri, n |-> Len(emitted), src |-> src]

RECURSIVE updateAll(_, _, _)
updateAll(p, uris, time) ==
    IF uris = <<>> THEN p
    ELSE updateAll(update(p, Head(uris), time), Tail(uris), time)

\* the listeners' common part: update is called for uris, in order
CallUpdate(uris, src) ==
    /\ Len(calls) + Len(uris) <= MaxCalls
    /\ LET p == updateAll(Provider(waiting, timers), uris, now)
       IN  /\ waiting' = p.waiting
           /\ timers' = p.timers
    /\ calls' = calls \o [i \in 1..Len(uris) |-> Call(uris[i], src)]
    /\ UNCHANGED <<emitted, now, textDocuments>>

\* vscode.workspace.onDidSaveTextDocument listener
OnDidSaveTextDocument(document) ==
    /\ document \in textDocuments
    /\ CallUpdate(IF isMarkdownFile(document)
                  THEN <<getMarkdownUri(document.uri)>> ELSE <<>>, "document")
    /\ UNCHANGED <<previewVars, fnVars>>

\* vscode.workspace.onDidChangeTextDocument listener
OnDidChangeTextDocument(document) ==
    /\ document \in textDocuments
    /\ CallUpdate(IF isMarkdownFile(document)
                  THEN <<getMarkdownUri(document.uri)>> ELSE <<>>, "document")
    /\ UNCHANGED <<previewVars, fnVars>>

\* the documents the configuration listener calls update for
isGenerated(document) == document.uri.scheme = sMarkdown

\* vscode.workspace.onDidChangeConfiguration listener
OnDidChangeConfiguration ==
    /\ \E order \in Orders({d \in textDocuments : isGenerated(d)}) :
          CallUpdate([i \in DOMAIN order |-> order[i].uri], "configuration")
    /\ UNCHANGED <<previewVars, fnVars>>

\* the host runs the callback of the timer that is due first
TimerFire ==
    /\ timers # <<>>
    /\ LET t == Head(timers)
           r == timerCallback(Provider(waiting, timers), t)
       IN  /\ waiting' = r.waiting
           /\ emitted' = emitted \o r.fired
           /\ now' = IF now < t.due THEN t.due ELSE now
    /\ timers' = Tail(timers)
    /\ UNCHANGED <<textDocuments, calls, previewVars, fnVars>>

\* time passes
Tick ==
    /\ now < MaxTime
    /\ now' = now + TickStep
    /\ UNCHANGED <<waiting, timers, emitted, textDocuments, calls, previewVars, fnVars>>

\* the host opens or closes a generated document (the user's files stay open)
OpenTextDocument(document) ==
    /\ document \notin textDocuments
    /\ textDocuments' = textDocuments \cup {document}
    /\ UNCHANGED <<waiting, timers, emitted, now, calls, previewVars, fnVars>>

CloseTextDocument(document) ==
    /\ document \in textDocuments
    /\ textDocuments' = textDocuments \ {document}
    /\ UNCHANGED <<waiting, timers, emitted, now, calls, previewVars, fnVars>>

\* the state after activate: new MDDocumentContentProvider(context)
Init ==
    /\ waiting = FALSE
    /\ timers = <<>>
    /\ emitted = <<>>
    /\ now = 0
    /\ textDocuments = SourceDocs
    /\ calls = <<>>
    /\ activeTextEditor = None
    /\ telemetryReporter = "present"
    /\ telemetry = <<>>
    /\ commands = <<>>
    /\ invoked = None
    /\ fnIn = None
    /\ fnOut = None
    /\ pc = "idle"

Next ==
    \/ \E d \in AllDocs : OnDidSaveTextDocument(d)
    \/ \E d \in AllDocs : OnDidChangeTextDocument(d)
    \/ OnDidChangeConfiguration
    \/ TimerFire
    \/ Tick
    \/ \E d \in PreviewDocs : OpenTextDocument(d)
    \/ \E d \in PreviewDocs : CloseTextDocument(d)

Spec == Init /\ [][Next]_vars

\* armed timers eventually fire
FairSpec == Spec /\ WF_vars(TimerFire)


-----------------------------------------------------------------------------
(* The debounce window.  A call of update belongs to window k when k - 1   *)
(* change notifications had been emitted before it: window k runs from the *)
(* first such call, which finds no timer pending, to the k-th expiry.      *)

InWindow(k) == {i \in DOMAIN calls : calls[i].n = k - 1}
FirstCall(k) == CHOOSE i \in InWindow(k) : \A j \in InWindow(k) : i <= j

\* every emission so far is the one emission of a window, for its first URI
OneEmissionPerWindow ==
    \A k \in 1..Len(emitted) :
        /\ InWindow(k) # {}
        /\ emitted[k] = calls[FirstCall(k)].uri

\* the calls since the last emission are answered by one timer, for the first URI
OpenWindowHasOneTimer ==
    LET k == Len(emitted) + 1
    IN  IF InWindow(k) # {}
        THEN Len(timers) = 1 /\ timers[1].uri = calls[FirstCall(k)].uri
        ELSE timers = <<>>

\* a pending timer is left alone until it expires, and it is armed for the delay
TimerNotReset ==
    /\ (timers # <<>> /\ emitted' = emitted) => timers' = timers
    /\ (timers = <<>> /\ timers' # <<>>) => timers'[1].due = now + Delay

(* C1: N >= 1 calls of update within one debounce window yield exactly one  *)
(* change notification, carrying the URI of the first call of the window;   *)
(* a call made while a refresh is pending does not reset the timer, and the *)
(* URI it passed is not emitted unless update is called for it again after  *)
(* the window has elapsed.                                                  *)
C1_OneEmissionPerWindow ==
    /\ [](OneEmissionPerWindow /\ OpenWindowHasOneTimer)
    /\ [][TimerNotReset]_vars

\* a window of three calls, the later ones for another URI, has elapsed
C1_Witness ==
    /\ Len(calls) = 3
    /\ \A i \in 1..3 : calls[i].n = 0
    /\ calls[2].uri # calls[1].uri
    /\ calls[3].uri # calls[1].uri
    /\ emitted = <<calls[1].uri>>
    /\ timers = <<>>

(* C2: update(u1) on an idle provider, then the expiry of its timer, then   *)
(* update(u2) and no other call: two notifications, u1 then u2; the second  *)
(* call arms a timer of its own.                                            *)
C2_TwoWindowsTwoEmissions ==
    (Len(calls) = 2 /\ calls[1].n = 0 /\ calls[2].n = 1) =>
        IF timers = <<>>
        THEN emitted = <<calls[1].uri, calls[2].uri>>
        ELSE emitted = <<calls[1].uri>> /\ Len(timers) = 1
             /\ timers[1].uri = calls[2].uri

C2_Witness ==
    /\ Len(calls) = 2
    /\ calls[1].n = 0
    /\ calls[2].n = 1
    /\ calls[1].uri # calls[2].uri
    /\ timers = <<>>
    /\ Len(emitted) = 2

(* C3: in every reachable state at most one refresh timer is armed, and     *)
(* _waiting is true exactly when a timer is armed.                          *)
C3_AtMostOneTimer ==
    /\ Len(timers) <= 1
    /\ waiting <=> (Len(timers) = 1)

\* a timer is armed after calls from a document listener and from the
\* configuration listener and after an earlier expiry
C3_Witness ==
    /\ waiting
    /\ Len(timers) = 1
    /\ Len(emitted) >= 1
    /\ \E i, j \in DOMAIN calls :
          calls[i].src = "document" /\ calls[j].src = "configuration"

(* C9: when the configuration changes, every open generated document gets   *)
(* a change notification for its URI, also with two or more of them open.   *)
(* Stated for the behaviours in which only the configuration listener has   *)
(* called update, and for their states in which no timer is pending:        *)
(* nothing further is emitted from there without a new call of update.      *)
C9_AllGeneratedDocumentsUpdated ==
    (timers = <<>> /\ \A j \in DOMAIN calls : calls[j].src = "configuration") =>
        \A i \in DOMAIN calls :
            \E k \in (calls[i].n + 1)..Len(emitted) : emitted[k] = calls[i].uri

\* a call of update that no change notification has followed yet
Unanswered == \E i \in DOMAIN calls : Len(emitted) <= calls[i].n

(* C10: provided armed timers eventually fire, every call of update is      *)
(* eventually followed by a change notification and by a state in which     *)
(* _waiting is false.  A call is unanswered until a notification has been   *)
(* emitted after it.                                                        *)
C10_UpdateLeadsToEmission ==
    (Unanswered \/ waiting) ~> (~Unanswered /\ ~waiting)

\* a second window has elapsed and the provider is idle again
C10_Witness ==
    /\ Len(calls) = MaxCalls
    /\ Len(emitted) = 2
    /\ ~waiting
    /\ timers = <<>>


-----------------------------------------------------------------------------
(* The commands markdown.showPreview, markdown.showPreviewToSide and        *)
(* markdown.showSource.                                                     *)

MaxEvents == 2      \* telemetry events in one behaviour

ViewColumns == {1, 2, 3}
Editor(d, col) == [document |-> d, viewColumn |-> col]
Editors == {Editor(d, c) : d \in SourceDocs, c \in ViewColumns}

getViewColumn(active, sideBySide) ==
    IF active = None THEN 1
    ELSE IF ~sideBySide THEN active.viewColumn
    ELSE IF active.viewColumn = 1 THEN 2
    ELSE IF active.viewColumn = 2 THEN 3
    ELSE active.viewColumn

\* the resource showPreview settles on: the argument, else the active document
previewResource(uri, active) ==
    IF uri # None THEN uri
    ELSE IF active # None THEN active.document.uri
    ELSE None

\* the properties of the openPreview telemetry event
openPreviewEvent(uri, sideBySide) ==
    [name |-> "openPreview",
     where |-> IF sideBySide THEN "sideBySide" ELSE "inPlace",
     how |-> IF uri # None THEN "action" ELSE "pallete"]

\* the requests showSource(mdUri) makes to the host
showSource(mdUri, active) ==
    IF mdUri = None
    THEN <<[command |-> "workbench.action.navigateBack"]>>
    ELSE LET docUri == UriParse(mdUri.query)
         IN  IF active # None /\ UriToString(active.document.uri) = UriToString(docUri)
             THEN <<[command |-> "showTextDocument", uri |-> active.document.uri,
                     column |-> active.viewColumn]>>
             ELSE <<[command |-> "openTextDocument", uri |-> docUri]>>

\* showPreview(uri, sideBySide)
ShowPreview(uri, sideBySide) ==
    /\ Len(telemetry) < MaxEvents
    /\ LET resource == previewResource(uri, activeTextEditor)
       IN  IF resource = None
           THEN /\ commands' =
                     IF activeTextEditor = None
                     THEN <<[command |-> "markdown.showSource"]>>
                          \o showSource(None, activeTextEditor)
                     ELSE <<>>
                /\ telemetry' = telemetry
           ELSE /\ commands' =
                     <<[command |-> "vscode.previewHtml",
                        uri |-> getMarkdownUri(resource),
                        column |-> getViewColumn(activeTextEditor, sideBySide)]>>
                /\ telemetry' =
                     IF telemetryReporter # "null"
                     THEN Append(telemetry, openPreviewEvent(uri, sideBySide))
                     ELSE telemetry
    /\ invoked' = [uri |-> uri, sideBySide |-> sideBySide,
                   resource |-> previewResource(uri, activeTextEditor),
                   before |-> Len(telemetry)]
    /\ UNCHANGED <<activeTextEditor, telemetryReporter, runtimeVars, fnVars>>

\* the command markdown.showSource
ShowSource(mdUri) ==
    /\ commands' = showSource(mdUri, activeTextEditor)
    /\ UNCHANGED <<activeTextEditor, telemetryReporter, telemetry, invoked,
                   runtimeVars, fnVars>>

\* the host moves the focus to a text editor, or to something that is none
FocusChange(editor) ==
    /\ activeTextEditor # editor
    /\ activeTextEditor' = editor
    /\ UNCHANGED <<telemetryReporter, telemetry, commands, invoked, runtimeVars, fnVars>>

\* activate: the reporter exists when the package information could be read
PreviewInit ==
    /\ waiting = FALSE
    /\ timers = <<>>
    /\ emitted = <<>>
    /\ now = 0
    /\ textDocuments = SourceDocs
    /\ calls = <<>>
    /\ activeTextEditor = None
    /\ telemetryReporter \in {"present", "null"}
    /\ telemetry = <<>>
    /\ commands = <<>>
    /\ invoked = None
    /\ fnIn = None
    /\ fnOut = None
    /\ pc = "idle"

PreviewNext ==
    \/ \E uri \in {None} \cup {d.uri : d \in SourceDocs}, sideBySide \in BOOLEAN :
          ShowPreview(uri, sideBySide)
    \/ \E mdUri \in {None} \cup {d.uri : d \in PreviewDocs} : ShowSource(mdUri)
    \/ \E editor \in Editors \cup {None} : FocusChange(editor)

PreviewSpec == PreviewInit /\ [][PreviewNext]_vars

\* the telemetry events the latest invocation of showPreview has sent
SentByLatest == SubSeq(telemetry, invoked.before + 1, Len(telemetry))

(* C8: every openPreview event has where in {sideBySide, inPlace} and how   *)
(* in {action, palette}; how is action when a URI argument was supplied and *)
(* palette otherwise; no event is sent without a telemetry reporter or when *)
(* no resource could be resolved.  Every event is the latest invocation's   *)
(* in the state that follows it, so the events of the latest invocation are *)
(* the ones examined.                                                       *)
C8_OpenPreviewTelemetry ==
    invoked # None =>
        IF telemetryReporter = "null" \/ invoked.resource = None
        THEN SentByLatest = <<>>
        ELSE \A j \in DOMAIN SentByLatest :
                /\ SentByLatest[j].name = "openPreview"
                /\ SentByLatest[j].where \in {"sideBySide", "inPlace"}
                /\ SentByLatest[j].how =
                     (IF invoked.uri # None THEN "action" ELSE "palette")


-----------------------------------------------------------------------------
(* The preview-URI derivation and its way back, on arbitrary document URIs  *)

MaxPathLen == 3     \* characters of a document URI's path

Range(f) == {f[i] : i \in DOMAIN f}

\* the URIs a document can have (RFC 3986, section 3.3): with an authority the
\* path is empty or starts with a slash, without one it does not start with two
WellFormed(u) ==
    IF u.authority # <<>>
    THEN u.path = <<>> \/ Head(u.path) = "/"
    ELSE ~StartsWith(u.path, <<"/", "/">>)

UriInputs ==
    {u \in {Uri(scheme, authority, path, query, fragment) :
                scheme \in {sFile, sHttp},
                authority \in {<<>>, <<"h">>},
                path \in Words(MaxPathLen, {"/", "a", "%", "?", ":"}),
                query \in Words(1, {"q", "#", "%"}),
                fragment \in Words(1, {"f", "#"})} :
        WellFormed(u)}

\* getMarkdownUri(uri), as showPreview and the document listeners call it
DeriveMarkdownUri ==
    /\ pc = "input"
    /\ fnOut' = [preview |-> getMarkdownUri(fnIn), docUri |-> None]
    /\ pc' = "derived"
    /\ UNCHANGED <<fnIn, runtimeVars, previewVars>>

\* vscode.Uri.parse(mdUri.query), as showSource and provideTextDocumentContent do
ParseQuery ==
    /\ pc = "derived"
    /\ fnOut' = [fnOut EXCEPT !.docUri = UriParse(fnOut.preview.query)]
    /\ pc' = "parsed"
    /\ UNCHANGED <<fnIn, runtimeVars, previewVars>>

IdleRuntime ==
    /\ waiting = FALSE
    /\ timers = <<>>
    /\ emitted = <<>>
    /\ now = 0
    /\ textDocuments = SourceDocs
    /\ calls = <<>>
    /\ activeTextEditor = None
    /\ telemetryReporter = "present"
    /\ telemetry = <<>>
    /\ commands = <<>>
    /\ invoked = None

UriInit ==
    /\ IdleRuntime
    /\ fnIn \in UriInputs
    /\ fnOut = None
    /\ pc = "input"

UriNext == DeriveMarkdownUri \/ ParseQuery

UriSpec == UriInit /\ [][UriNext]_vars

-----------------------------------------------------------------------------
(* getDocumentContentForPreview: the front-matter block is cut off with     *)
(*   content.replace(                                                       *)
(*     /^-{3}[ \t]*(\r\n|\n)(.|\r\n|\n)*?(\r\n|\n)-{3}[ \t]*(\r\n|\n)/, '') *)
(* The matcher below follows the pattern piece by piece; every piece is     *)
(* decided by the next character, so the backtracking search finds the      *)
(* match that ends first.                                                   *)

MaxLines == 3       \* lines of a document's text

LF == "\n"
CR == "\r"
TAB == "\t"
sDashes == <<"-", "-", "-">>

\* (\r\n|\n): the length matched at the start of s, 0 when there is no match
newlineLen(s) ==
    IF StartsWith(s, <<CR, LF>>) THEN 2
    ELSE IF StartsWith(s, <<LF>>) THEN 1
    ELSE 0

\* -{3}[ \t]*(\r\n|\n)
delimiterLen(s) ==
    IF StartsWith(s, sDashes)
    THEN LET blanks == SpanLength(Drop(s, 3), {" ", TAB})
             nl == newlineLen(Drop(s, 3 + blanks))
         IN  IF nl > 0 THEN 3 + blanks + nl ELSE 0
    ELSE 0

\* (\r\n|\n)-{3}[ \t]*(\r\n|\n)
closingLen(s) ==
    LET nl == newlineLen(s)
    IN  IF nl > 0 /\ delimiterLen(Drop(s, nl)) > 0
        THEN nl + delimiterLen(Drop(s, nl))
        ELSE 0

\* one repetition of (.|\r\n|\n); the dot matches no line terminator
bodyTokenLen(s) ==
    IF s = <<>> THEN 0
    ELSE IF Head(s) \notin {LF, CR} THEN 1
    ELSE newlineLen(s)

\* (.|\r\n|\n)*?(\r\n|\n)-{3}[ \t]*(\r\n|\n): the length matched, -1 for no match
RECURSIVE lazyBodyLen(_)
lazyBodyLen(s) ==
    IF closingLen(s) > 0 THEN closingLen(s)
    ELSE IF bodyTokenLen(s) = 0 THEN -1
    ELSE LET rest == lazyBodyLen(Drop(s, bodyTokenLen(s)))
         IN  IF rest < 0 THEN -1 ELSE bodyTokenLen(s) + rest

\* the length of the match of the whole pattern at the start of content, 0 for none
frontMatterLen(content) ==
    LET open == delimiterLen(content)
    IN  IF open = 0 THEN 0
        ELSE LET rest == lazyBodyLen(Drop(content, open))
             IN  IF rest < 0 THEN 0 ELSE open + rest

getDocumentContentForPreviewAlwaysHides(content, previewFrontMatter) ==
    Drop(content, frontMatterLen(content))

getDocumentContentForPreview(content, previewFrontMatter) ==
    IF previewFrontMatter = "hide"
    THEN Drop(content, frontMatterLen(content))
    ELSE content

\* the texts: up to MaxLines lines, the last one with or without its line end
LineContents ==
    {sDashes, sDashes \o <<" ">>, sDashes \o <<"-">>, <<"a">>, <<>>, <<"a", CR, "b">>}
LineEnds == {<<LF>>, <<CR, LF>>}
TextLines == {c \o e : c \in LineContents, e \in LineEnds}
Texts ==
    {Flatten(ls) \o last :
        ls \in UNION {[1..k -> TextLines] : k \in 0..(MaxLines - 1)},
        last \in LineContents \cup TextLines}

GetDocumentContentForPreview ==
    /\ pc = "input"
    /\ fnOut' = getDocumentContentForPreview(fnIn.content, fnIn.previewFrontMatter)
    /\ pc' = "done"
    /\ UNCHANGED <<fnIn, runtimeVars, previewVars>>

FrontMatterInit ==
    /\ IdleRuntime
    /\ fnIn \in [content : Texts, previewFrontMatter : {"hide", "show"}]
    /\ fnOut = None
    /\ pc = "input"

FrontMatterNext == GetDocumentContentForPreview

FrontMatterSpec == FrontMatterInit /\ [][FrontMatterNext]_vars

(* The lines of a text, as the claims speak of them: a line ends with \n or *)
(* \r\n; a delimiter line is three dashes, followed at most by blanks.      *)

RECURSIVE SplitLines(_)
SplitLines(s) ==
    IF s = <<>> THEN <<>>
    ELSE LET n == RunLength(s, {LF})
         IN  IF n = Len(s) THEN <<[content |-> s, end |-> <<>>]>>
             ELSE IF n >= 1 /\ s[n] = CR
                  THEN <<[content |-> Take(s, n - 1), end |-> <<CR, LF>>]>>
                       \o SplitLines(Drop(s, n + 1))
                  ELSE <<[content |-> Take(s, n), end |-> <<LF>>]>>
                       \o SplitLines(Drop(s, n + 1))

IsDelimiterLine(l) ==
    /\ StartsWith(l.content, sDashes)
    /\ \A i \in 4..Len(l.content) : l.content[i] \in {" ", TAB}

\* the text of the lines from line j on
RECURSIVE JoinLines(_, _)
JoinLines(ls, j) ==
    IF j > Len(ls) THEN <<>> ELSE ls[j].content \o ls[j].end \o JoinLines(ls, j + 1)

\* the delimiter lines after the first line; one that ends the text without a
\* line end is not counted
ClosingLines(ls) == {j \in 2..Len(ls) : IsDelimiterLine(ls[j]) /\ ls[j].end # <<>>}
StartsWithDelimiter(ls) == ls # <<>> /\ IsDelimiterLine(ls[1])
FirstClosing(ls) == CHOOSE j \in ClosingLines(ls) : \A k \in ClosingLines(ls) : j <= k

(* C5: with previewFrontMatter 'hide' and a text that begins with a         *)
(* well-formed front-matter block, the result is exactly the text after the *)
(* block: from the opening line through the first following delimiter line.*)
C5_FrontMatterRemoved ==
    pc = "done" =>
        LET ls == SplitLines(fnIn.content)
        IN  (/\ fnIn.previewFrontMatter = "hide"
             /\ StartsWithDelimiter(ls)
             /\ ClosingLines(ls) # {})
            => fnOut = JoinLines(ls, FirstClosing(ls) + 1)

(* C6: the text is returned unchanged when previewFrontMatter is not 'hide',*)
(* when the text does not start with a delimiter line, and when the opening *)
(* line has no closing delimiter line; the result is always a suffix of the *)
(* text.                                                                    *)
C6_UnchangedOrSuffix ==
    pc = "done" =>
        LET ls == SplitLines(fnIn.content)
        IN  /\ IsSuffix(fnOut, fnIn.content)
            /\ (\/ fnIn.previewFrontMatter # "hide"
                \/ ~StartsWithDelimiter(ls)
                \/ ClosingLines(ls) = {})
               => fnOut = fnIn.content

\* an opening line without a closing one, front matter hidden: nothing is cut
C6_Witness ==
    /\ pc = "done"
    /\ fnIn.previewFrontMatter = "hide"
    /\ fnIn.content = sDashes \o <<LF, "a", LF>> \o sDashes \o <<"-", LF>>
    /\ fnOut = fnIn.content


-----------------------------------------------------------------------------
(* fixHref: the stylesheet references of the markdown.styles setting.       *)
(* The functions of the path module are the POSIX ones.                     *)

MaxHrefLen == 4     \* characters of a stylesheet reference

\* the segments between the slashes of p, the empty ones left out
RECURSIVE Segments(_)
Segments(p) ==
    IF p = <<>> THEN <<>>
    ELSE IF Head(p) = "/" THEN Segments(Tail(p))
    ELSE LET n == RunLength(p, {"/"})
         IN  <<Take(p, n)>> \o Segments(Drop(p, n))

sDot == <<".">>
sDotDot == <<".", ".">>

\* normalizeArray(parts, allowAboveRoot), with the segments done so far in res
RECURSIVE normalizeArray(_, _, _)
normalizeArray(parts, allowAboveRoot, res) ==
    IF parts = <<>> THEN res
    ELSE LET part == Head(parts)
             next == IF part = sDot THEN res
                     ELSE IF part = sDotDot
                          THEN IF res # <<>> /\ res[Len(res)] # sDotDot
                               THEN Take(res, Len(res) - 1)
                               ELSE IF allowAboveRoot THEN Append(res, part)
                               ELSE res
                          ELSE Append(res, part)
         IN  normalizeArray(Tail(parts), allowAboveRoot, next)

RECURSIVE JoinSegments(_)
JoinSegments(segs) ==
    IF segs = <<>> THEN <<>>
    ELSE IF Len(segs) = 1 THEN segs[1]
    ELSE segs[1] \o <<"/">> \o JoinSegments(Tail(segs))

\* path.normalize(p)
pathNormalize(p) ==
    IF p = <<>> THEN sDot
    ELSE LET isAbs == Head(p) = "/"
             trailing == p[Len(p)] = "/"
             body == JoinSegments(normalizeArray(Segments(p), ~isAbs, <<>>))
             body2 == IF body = <<>> /\ ~isAbs THEN sDot ELSE body
             body3 == IF body2 # <<>> /\ trailing THEN body2 \o <<"/">> ELSE body2
         IN  (IF isAbs THEN <<"/">> ELSE <<>>) \o body3

\* the working directory of the extension host
Cwd == <<"/", "c">>

\* path.resolve(p)
pathResolve(p) ==
    LET full == IF p # <<>> /\ Head(p) = "/" THEN p ELSE Cwd \o <<"/">> \o p
    IN  <<"/">> \o JoinSegments(normalizeArray(Segments(full), FALSE, <<>>))

\* path.join(a, b)
pathJoin(a, b) ==
    pathNormalize(IF a = <<>> THEN b ELSE IF b = <<>> THEN a ELSE a \o <<"/">> \o b)

\* the index of the last slash of p, 0 when it has none
RECURSIVE LastSlash(_)
LastSlash(p) ==
    IF p = <<>> THEN 0
    ELSE IF p[Len(p)] = "/" THEN Len(p) ELSE LastSlash(Take(p, Len(p) - 1))

RECURSIVE StripTrailingSlashes(_)
StripTrailingSlashes(p) ==
    IF Len(p) > 1 /\ p[Len(p)] = "/" THEN StripTrailingSlashes(Take(p, Len(p) - 1))
    ELSE p

\* path.dirname(p)
pathDirname(p) ==
    LET q == StripTrailingSlashes(p)
        i == LastSlash(q)
    IN  IF i = 0 THEN sDot
        ELSE IF i = 1 THEN <<"/">>
        ELSE StripTrailingSlashes(Take(q, i - 1))

\* MDDocumentContentProvider.isAbsolute(p)
isAbsolute(p) ==
    pathNormalize(p \o <<"/">>) = pathNormalize(pathResolve(p) \o <<"/">>)

\* fixHref with the last two rules in the other order
fixHrefPrefersFileDirectory(resource, href, rootPath) ==
    IF href # <<>>
    THEN IF UriParse(href).scheme # <<>> THEN href
         ELSE IF isAbsolute(href) THEN UriToString(UriFile(href))
         ELSE IF fsPath(resource) # <<>>
              THEN UriToString(UriFile(pathJoin(pathDirname(fsPath(resource)), href)))
              ELSE UriToString(UriFile(pathJoin(rootPath, href)))
    ELSE href

\* fixHref(resource, href), with vscode.workspace.rootPath as rootPath
fixHref(resource, href, rootPath) ==
    IF href # <<>>
    THEN IF UriParse(href).scheme # <<>> THEN href
         ELSE IF isAbsolute(href) THEN UriToString(UriFile(href))
         ELSE IF rootPath # <<>>
              THEN UriToString(UriFile(pathJoin(rootPath, href)))
              ELSE UriToString(UriFile(pathJoin(pathDirname(fsPath(resource)), href)))
    ELSE href

\* the previewed files and the workspace roots (empty: no folder is open)
PreviewedFiles == {FileUri(<<"a">>), FileUri(<<"d", "/", "a">>)}
RootPaths == {<<>>, <<"/", "w">>}
Hrefs == Words(MaxHrefLen, {"a", ".", "/", ":"})

\* computeCustomStyleSheetIncludes(uri) calls fixHref with the preview URI that
\* provideTextDocumentContent was asked for
FixHref ==
    /\ pc = "input"
    /\ fnOut' = fixHref(getMarkdownUri(fnIn.document), fnIn.href, fnIn.rootPath)
    /\ pc' = "done"
    /\ UNCHANGED <<fnIn, runtimeVars, previewVars>>

HrefInit ==
    /\ IdleRuntime
    /\ fnIn \in [document : PreviewedFiles, href : Hrefs, rootPath : RootPaths]
    /\ fnOut = None
    /\ pc = "input"

HrefNext == FixHref

HrefSpec == HrefInit /\ [][HrefNext]_vars

(* The terms of the claim: a URL scheme is a non-empty run of characters    *)
(* other than : / ? # followed by a colon; an absolute local path starts    *)
(* with a slash; a file URI of a path is a URI of scheme file whose file    *)
(* system path is, normalized and but for a slash at the end, that path.    *)
HasUrlScheme(href) ==
    \E n \in 1..(Len(href) - 1) :
        /\ href[n + 1] = ":"
        /\ \A i \in 1..n : href[i] \notin {":", "/", "?", "#"}

IsFileUriOf(out, p) ==
    /\ UriParse(out).scheme = sFile
    /\ StripTrailingSlashes(pathNormalize(fsPath(UriParse(out))))
          = StripTrailingSlashes(pathNormalize(p))

(* C7: fixHref resolves a non-empty href by the first rule that applies:    *)
(* (1) with a URL scheme it is returned unchanged; (2) an absolute local    *)
(* path becomes a file URI of that path; (3) with a workspace open the href *)
(* is joined under the workspace root; (4) otherwise it is joined under the *)
(* directory of the previewed file.                                         *)
C7_FixHrefOrder ==
    (pc = "done" /\ fnIn.href # <<>>) =>
        LET href == fnIn.href
            fileDir == pathDirname(fnIn.document.path)
        IN  IF HasUrlScheme(href) THEN fnOut = href
            ELSE IF Head(href) = "/" THEN IsFileUriOf(fnOut, href)
            ELSE IF fnIn.rootPath # <<>>
                 THEN IsFileUriOf(fnOut, fnIn.rootPath \o <<"/">> \o href)
            ELSE IsFileUriOf(fnOut, fileDir \o <<"/">> \o href)

\* a relative href was resolved under the workspace root, not the file's directory
C7_Witness ==
    /\ pc = "done"
    /\ fnIn.href = <<"a">>
    /\ fnIn.rootPath = <<"/", "w">>
    /\ fnIn.document = FileUri(<<"d", "/", "a">>)
    /\ fnOut = <<"f", "i", "l", "e", ":", "/", "/", "/", "w", "/", "a">>

=============================================================================
